---- MODULE Spec2Model ----
(***************************************************************************)
(* Model of the bella-tracer-v2 question-answering pipeline                *)
(* (src/bella_tracer_v2/agent.py, api/app.py, models.py).                  *)
(*                                                                         *)
(* Strings are sequences of one-character strings, so that the regular     *)
(* expression of retrieval_node and str.strip() are computed, not assumed. *)
(* Scores are integers in hundredths (0.90 is 90, 1.0 is 100).             *)
(* A Python dict is a record with a field "keys" naming the keys present.  *)
(***************************************************************************)
EXTENDS Integers, Sequences, FiniteSets, TLC

\* ------------------------------------------------------------------------
\* Bounds of the model
\* ------------------------------------------------------------------------

\* longest row list the vector query returns in the model
MaxRows == 2

\* longest "ranked_results" list of a ranking response in the model
MaxRanked == 2

\* largest top_k a direct caller of rerank passes in the model
MaxTopK == 2

\* longest "ranked_results" list of a ranking response inside a graph run
MaxRankedInGraph == 1

\* ------------------------------------------------------------------------
\* Strings
\* ------------------------------------------------------------------------

Rep(c, n) == [i \in 1..n |-> c]

RECURSIVE Concat(_)
Concat(ss) == IF ss = <<>> THEN <<>> ELSE Head(ss) \o Concat(Tail(ss))

\* [0-9a-fA-F]
HexDigits ==
    {"0", "1", "2", "3", "4", "5", "6", "7", "8", "9",
     "a", "b", "c", "d", "e", "f", "A", "B", "C", "D", "E", "F"}

\* \w of Python's re for the characters the model's strings are made of
WordChars ==
    HexDigits \cup
    {"g", "h", "i", "l", "m", "n", "o", "p", "r", "s", "t", "w", "x", "y", "z", "_"}

\* the whitespace str.strip() removes
Whitespace == {" ", "\n", "\t"}

\* lengths of the hexadecimal groups of the identifier pattern
UuidGroups == <<8, 4, 4, 4, 12>>

\* the pattern without its \b anchors, one character class per position:
\* "h" is [0-9a-fA-F], "-" is a literal hyphen
UuidPattern ==
    Concat([g \in 1..(2 * Len(UuidGroups) - 1) |->
              IF g % 2 = 1 THEN Rep("h", UuidGroups[(g + 1) \div 2]) ELSE <<"-">>])

\* \b at the gap before position i of s (between s[i-1] and s[i])
WordBoundary(s, i) ==
    LET before == i > 1 /\ i - 1 <= Len(s) /\ s[i - 1] \in WordChars
        after  == i >= 1 /\ i <= Len(s) /\ s[i] \in WordChars
    IN  before # after

\* the pattern matches s starting at position i
MatchAt(s, i) ==
    /\ i >= 1
    /\ i + Len(UuidPattern) - 1 <= Len(s)
    /\ WordBoundary(s, i)
    /\ \A k \in 1..Len(UuidPattern) :
         IF UuidPattern[k] = "h" THEN s[i + k - 1] \in HexDigits
                                 ELSE s[i + k - 1] = "-"
    /\ WordBoundary(s, i + Len(UuidPattern))

\* re.search(...).group(0), or <<>> for None (a match is never empty)
trace_id_match(s) ==
    IF \E i \in 1..Len(s) : MatchAt(s, i)
    THEN LET i == CHOOSE j \in 1..Len(s) :
                    MatchAt(s, j) /\ \A k \in 1..(j - 1) : ~MatchAt(s, k)
         IN  SubSeq(s, i, i + Len(UuidPattern) - 1)
    ELSE <<>>

RECURSIVE LStrip(_)
LStrip(s) == IF s # <<>> /\ Head(s) \in Whitespace THEN LStrip(Tail(s)) ELSE s

RECURSIVE RStrip(_)
RStrip(s) ==
    IF s # <<>> /\ s[Len(s)] \in Whitespace THEN RStrip(SubSeq(s, 1, Len(s) - 1)) ELSE s

\* str.strip()
strip(s) == RStrip(LStrip(s))

\* ------------------------------------------------------------------------
\* Inputs: trace identifiers, questions, rewriter outputs
\* ------------------------------------------------------------------------

Uuid(a, b, c, d, e) ==
    Rep(a, 8) \o <<"-">> \o Rep(b, 4) \o <<"-">> \o Rep(c, 4) \o <<"-">> \o Rep(d, 4)
        \o <<"-">> \o Rep(e, 12)

TraceA == Uuid("a", "1", "2", "3", "b")
TraceB == Uuid("B", "4", "5", "6", "c")
TraceC == Uuid("0", "7", "8", "9", "F")

\* "why fail": no identifier
QPlain == <<"w", "h", "y", " ", "f", "a", "i", "l">>
\* an identifier of a stored trace after some words
QTraceA == <<"s", "e", "e", " ">> \o TraceA \o <<"?">>
\* a well-formed identifier of no stored trace
QTraceC == TraceC
\* two identifiers: the leftmost one is the match
QTwo == TraceB \o <<" ">> \o TraceA
\* the identifier glued to a word character: \b fails
QGlued == <<"x">> \o TraceA
\* the last group one digit short
QShort == SubSeq(TraceA, 1, Len(TraceA) - 1) \o <<" ", "p", "a", "y">>
\* a non-hexadecimal letter inside the first group
QNotHex == <<"g">> \o Tail(TraceA)

Questions == {QPlain, QTraceA, QTraceC, QTwo, QGlued, QShort, QNotHex}

\* what the rewriting model may answer (response.content), before strip()
RewriterContents ==
    {<<" ", "p", "a", "y", " ", "f", "a", "i", "l", "\n">>,
     <<"p", "a", "y">> ,
     TraceA \o <<" ">>}

\* ------------------------------------------------------------------------
\* The evidence store and its two queries
\* ------------------------------------------------------------------------

\* the LogEntry nodes of the store with their joined Service, Trace, Scenario
StoreLogs ==
    {[message |-> "db timeout", level |-> "ERROR", timestamp |-> 2,
      service |-> "payment", trace_id |-> TraceA, scenario |-> "checkout"],
     [message |-> "retrying", level |-> "WARNING", timestamp |-> 1,
      service |-> "payment", trace_id |-> TraceA, scenario |-> "checkout"],
     [message |-> "retrying", level |-> "ERROR", timestamp |-> 1,
      service |-> "payment", trace_id |-> TraceA, scenario |-> "checkout"],
     [message |-> "cache miss", level |-> "INFO", timestamp |-> 3,
      service |-> "cart", trace_id |-> TraceB, scenario |-> "browse"]}

\* similarity scores the vector index may report
SimScores == {70, 90}

\* a result row: the RETURN columns the document loop reads
Row(log, score) ==
    [message |-> log.message, level |-> log.level, timestamp |-> log.timestamp,
     service |-> log.service, trace_id |-> log.trace_id, scenario |-> log.scenario,
     score |-> score]

\* the sequences over S without repetition, of length n
Arrangements(S, n) ==
    {s \in [1..n -> S] : \A i, j \in 1..n : i # j => s[i] # s[j]}

\* exact_trace_query without its ORDER BY
exact_trace_query_unordered(trace_id) ==
    LET hits == {Row(l, 100) : l \in {m \in StoreLogs : m.trace_id = trace_id}}
    IN  Arrangements(hits, Cardinality(hits))

\* vector_query without its ORDER BY
vector_query_unordered ==
    LET hits == {Row(l, sc) : l \in StoreLogs, sc \in SimScores}
    IN  UNION {{s \in Arrangements(hits, n) :
                  \A i, j \in 1..n :
                      i # j => [s[i] EXCEPT !.score = 0] # [s[j] EXCEPT !.score = 0]}
               : n \in 0..MaxRows}

\* MATCH (t:Trace {trace_id: $trace_id}) ... 1.0 AS score ORDER BY log.timestamp ASC
\* (every order the store may return, should two timestamps be equal)
exact_trace_query(trace_id) ==
    LET hits == {Row(l, 100) : l \in {m \in StoreLogs : m.trace_id = trace_id}}
    IN  {s \in Arrangements(hits, Cardinality(hits)) :
           \A i \in 1..(Len(s) - 1) : s[i].timestamp <= s[i + 1].timestamp}

\* CALL db.index.vector.queryNodes(...) ... ORDER BY score DESC: which entries are
\* near the embedding, and how near, is the store's answer
vector_query ==
    LET hits == {Row(l, sc) : l \in StoreLogs, sc \in SimScores}
    IN  UNION {{s \in Arrangements(hits, n) :
                  /\ \A i, j \in 1..n :
                       i # j => [s[i] EXCEPT !.score = 0] # [s[j] EXCEPT !.score = 0]
                  /\ \A i \in 1..(n - 1) : s[i].score >= s[i + 1].score}
               : n \in 0..MaxRows}

\* ------------------------------------------------------------------------
\* Documents
\* ------------------------------------------------------------------------

DocBaseKeys == {"text", "trace_id", "score"}

\* the f-string of the document loop: the fields it prints, in its order
DocText(record) ==
    <<record.timestamp, record.level, record.service, record.message,
      record.trace_id, record.scenario>>

\* the dict appended for one record; rerank_score and rerank_reason are
\* no keys of it until the reranker sets them
MakeDoc(record) ==
    [keys |-> DocBaseKeys, text |-> DocText(record), trace_id |-> record.trace_id,
     score |-> record.score, rerank_score |-> 0, rerank_reason |-> ""]

MakeDocs(records) == [i \in 1..Len(records) |-> MakeDoc(records[i])]

\* lists of documents hold references: a reference is the position of the dict
\* in the list retrieval built, so the element of a reranked list is the very
\* object of the retrieved list, as in Python
Deref(refs, docs) == [i \in 1..Len(refs) |-> docs[refs[i]]]

\* ------------------------------------------------------------------------
\* The ranking response of the reasoning service
\* ------------------------------------------------------------------------

ItemKeys == {"index", "relevance_score", "reasoning"}

\* one element of "ranked_results" as JsonOutputParser returns it: a JSON
\* object that need not have every key, nor an integer under "index"
Item(keys, index, index_is_int, relevance_score, reasoning) ==
    [keys |-> keys, index |-> index, index_is_int |-> index_is_int,
     relevance_score |-> relevance_score, reasoning |-> reasoning]

\* indices below, inside and above the range of every candidate list of the model
IndexValues == (0 - 1)..MaxRows

\* relevance scores the service may write (1.5 is outside [0, 1])
ScoreValues == {90, 150}

WellFormedItems ==
    {Item(ItemKeys, i, TRUE, sc, "relevant") : i \in IndexValues, sc \in ScoreValues}

MalformedItems ==
    {Item(ItemKeys \ {"index"}, 0, TRUE, 90, "relevant"),
     Item(ItemKeys, 0, FALSE, 90, "relevant"),
     Item(ItemKeys \ {"relevance_score"}, 0, TRUE, 0, "relevant"),
     Item(ItemKeys \ {"relevance_score"}, MaxRows, TRUE, 0, "relevant"),
     Item(ItemKeys \ {"reasoning"}, 0, TRUE, 90, "")}

Items == WellFormedItems \cup MalformedItems

SeqsUpTo(S, n) == UNION {[1..k -> S] : k \in 0..n}

\* what `await chain.ainvoke(...)` of rerank does:
\*   kind "raise": the call or the JSON parser raises;
\*   kind "list":  the parsed JSON is no object (result.get raises);
\*   kind "dict":  a JSON object, with or without the key "ranked_results"
Response(kind, has_ranked, ranked_results) ==
    [kind |-> kind, has_ranked |-> has_ranked, ranked_results |-> ranked_results]

\* placeholder of the response while no rerank call has been made
NoResponse == Response("none", FALSE, <<>>)

RankingResponses ==
    {Response("raise", FALSE, <<>>), Response("list", FALSE, <<>>),
     Response("dict", FALSE, <<>>)}
    \cup {Response("dict", TRUE, r) : r \in SeqsUpTo(Items, MaxRanked)}

\* the responses drawn inside a run of the graph
GraphRankingResponses ==
    {resp \in RankingResponses : Len(resp.ranked_results) <= MaxRankedInGraph}

\* a response every element of which follows the RankedDocument schema
WellFormed(resp) ==
    /\ resp.kind = "dict"
    /\ resp.has_ranked
    /\ \A i \in 1..Len(resp.ranked_results) : resp.ranked_results[i] \in WellFormedItems

\* ------------------------------------------------------------------------
\* OpenAIRerankerService.rerank
\* ------------------------------------------------------------------------

\* IndexInRange without its lower bound
IndexInRangeNoLower(idx, docs) == idx < Len(docs)

\* `0 <= idx < len(docs)` (idx counts from 0)
IndexInRange(idx, docs) == 0 <= idx /\ idx < Len(docs)

\* SetScore writing under the key "score", over the retrieval score
SetScoreAsRetrievalScore(docs, idx, item) ==
    [docs EXCEPT ![idx + 1].score = item.relevance_score]

\* original_doc["rerank_score"] = item["relevance_score"]
SetScore(docs, idx, item) ==
    [docs EXCEPT ![idx + 1].keys = @ \cup {"rerank_score"},
                 ![idx + 1].rerank_score = item.relevance_score]

\* original_doc["rerank_reason"] = item["reasoning"]
SetReason(docs, idx, item) ==
    [docs EXCEPT ![idx + 1].keys = @ \cup {"rerank_reason"},
                 ![idx + 1].rerank_reason = item.reasoning]

\* the loop over result["ranked_results"], from the state (docs, reranked_docs):
\* raised is TRUE when an iteration raised (KeyError, TypeError); what the
\* iterations before it wrote to the dicts stays written
RECURSIVE RankLoop(_, _, _)
RankLoop(docs, reranked_docs, items) ==
    IF items = <<>>
    THEN [raised |-> FALSE, docs |-> docs, out |-> reranked_docs]
    ELSE LET item == Head(items)
             idx  == item.index
         IN  IF "index" \notin item.keys \/ ~item.index_is_int
             THEN [raised |-> TRUE, docs |-> docs, out |-> reranked_docs]
             ELSE IF ~IndexInRange(idx, docs)
             THEN RankLoop(docs, reranked_docs, Tail(items))
             ELSE IF "relevance_score" \notin item.keys
             THEN [raised |-> TRUE, docs |-> docs, out |-> reranked_docs]
             ELSE IF "reasoning" \notin item.keys
             THEN [raised |-> TRUE, docs |-> SetScore(docs, idx, item),
                   out |-> reranked_docs]
             ELSE RankLoop(SetReason(SetScore(docs, idx, item), idx, item),
                           Append(reranked_docs, idx + 1), Tail(items))

\* FirstTopK handing back top_k items whatever the length of docs
FirstTopKPadded(docs, top_k) == [i \in 1..(IF top_k >= 0 THEN top_k ELSE 0) |-> i]

\* docs[:top_k], as references
FirstTopK(docs, top_k) ==
    IF top_k >= 0
    THEN [i \in 1..(IF top_k < Len(docs) THEN top_k ELSE Len(docs)) |-> i]
    ELSE [i \in 1..(IF Len(docs) + top_k > 0 THEN Len(docs) + top_k ELSE 0) |-> i]

\* rerank without its `if not docs: return []`
rerankNoEmptyCheck(docs, top_k, resp) ==
    IF resp.kind # "dict"
    THEN [called |-> TRUE, docs |-> docs, out |-> FirstTopK(docs, top_k)]
    ELSE LET loop == RankLoop(docs, <<>>,
                              IF resp.has_ranked THEN resp.ranked_results ELSE <<>>)
         IN  IF loop.raised
             THEN [called |-> TRUE, docs |-> loop.docs,
                   out |-> FirstTopK(loop.docs, top_k)]
             ELSE [called |-> TRUE, docs |-> loop.docs, out |-> loop.out]

\* rerank(query, docs, top_k) when the service answers resp:
\*   called: whether the reasoning service was invoked,
\*   docs:   the candidate dicts after the call (the loop writes into them),
\*   out:    the returned list, as references into docs
rerank(docs, top_k, resp) ==
    IF docs = <<>>
    THEN [called |-> FALSE, docs |-> docs, out |-> <<>>]
    ELSE IF resp.kind # "dict"
    THEN [called |-> TRUE, docs |-> docs, out |-> FirstTopK(docs, top_k)]
    ELSE LET loop == RankLoop(docs, <<>>,
                              IF resp.has_ranked THEN resp.ranked_results ELSE <<>>)
         IN  IF loop.raised
             THEN [called |-> TRUE, docs |-> loop.docs,
                   out |-> FirstTopK(loop.docs, top_k)]
             ELSE [called |-> TRUE, docs |-> loop.docs, out |-> loop.out]

\* ------------------------------------------------------------------------
\* State
\* ------------------------------------------------------------------------

VARIABLES
    original_question,   \* GraphState: the caller's question
    optimized_question,  \* GraphState: the rewritten query
    extracted_filters,   \* GraphState: the time filter dict
    retrieved_docs,      \* GraphState: the candidate dicts, in retrieval order
    reranked_docs,       \* GraphState: references to dicts of retrieved_docs
    final_answer,        \* GraphState: the answer text
    pc,                  \* the node the graph runs next, END_NODE, or "raised"
    ran,                 \* the nodes invoked so far, in order
    calls,               \* the calls made to external services, in order
    context_text,        \* the context generation_node sent to the reasoning service
    driver,              \* the store driver of retrieval_node: none, open, closed
    dates_reply,         \* how the reasoning service answers a time-extraction request
    arg_top_k,           \* top_k of the rerank call
    arg_response,        \* the ranking response of a direct rerank call
    topic,               \* ingestion: the payloads of the partition, in offset order
    consumer,            \* ingestion: the Kafka consumer: none, created, started, stopped
    position,            \* ingestion: the number of messages the consumer has fetched
    committed,           \* ingestion: the committed offset (messages marked consumed)
    handled,             \* ingestion: how each fetched message was handled, in order
    flow_pc,             \* ingestion: where knowledge_graph_parser is
    requests,            \* concurrent requests: the GraphState and position of each
    inputs               \* concurrent requests: the question and service answers of each

\* the variables of one run of the query pipeline
pipeline_vars ==
    <<original_question, optimized_question, extracted_filters, retrieved_docs,
      reranked_docs, final_answer, pc, ran, calls, context_text, driver,
      dates_reply, arg_top_k, arg_response>>

\* the variables of the ingestion flow
ingest_vars == <<topic, consumer, position, committed, handled, flow_pc>>

\* the variables of the concurrently served requests
request_vars == <<requests, inputs>>

vars == <<pipeline_vars, ingest_vars, request_vars>>

\* no ingestion flow is running
NoIngestion ==
    /\ topic = <<>>
    /\ consumer = "none"
    /\ position = 0
    /\ committed = 0
    /\ handled = <<>>
    /\ flow_pc = "none"

\* no concurrent requests are being served
NoRequests ==
    /\ requests = <<>>
    /\ inputs = <<>>

graph_state ==
    <<original_question, optimized_question, extracted_filters, retrieved_docs,
      reranked_docs, final_answer>>

\* ------------------------------------------------------------------------
\* The graph of retrieve_graph
\* ------------------------------------------------------------------------

END_NODE == "__end__"

\* workflow.add_node
Nodes == {"optimize_query", "extract_dates", "retrieval", "reranking", "generation"}

\* workflow.set_entry_point
entry_point == "optimize_query"

\* workflow.add_edge (the edge out of extract_dates is commented out in the source,
\* and no edge leads into it)
Edges ==
    {<<"optimize_query", "retrieval">>,
     <<"retrieval", "reranking">>,
     <<"reranking", "generation">>,
     <<"generation", END_NODE>>}

\* where the graph goes after node n has returned its delta
Successor(n) ==
    IF \E e \in Edges : e[1] = n
    THEN (CHOOSE e \in Edges : e[1] = n)[2]
    ELSE END_NODE

\* ------------------------------------------------------------------------
\* Values of the state fields
\* ------------------------------------------------------------------------

None == "None"

\* {} of initial_state
EmptyDict == [keys |-> {}, start_date |-> None, end_date |-> None]

\* {"start_date": None, "end_date": None}
NullFilters ==
    [keys |-> {"start_date", "end_date"}, start_date |-> None, end_date |-> None]

\* the instants of the model in ISO 8601 (YYYY-MM-DDTHH:MM:SS): instant i is
\* IsoTimes[i]; log.timestamp holds the instant itself
IsoTimes == <<"2024-01-01T00:00:01", "2024-01-01T00:00:02", "2024-01-01T00:00:03">>

\* the instant an ISO 8601 string names
Instant(iso) == CHOOSE i \in 1..Len(IsoTimes) : IsoTimes[i] = iso

\* what the reasoning service may do on a time-extraction request: raise, answer
\* text the JSON parser rejects, or answer a JSON object
DateReplies ==
    {[kind |-> "raise", value |-> EmptyDict],
     [kind |-> "malformed", value |-> EmptyDict],
     [kind |-> "json", value |-> NullFilters],
     [kind |-> "json",
      value |-> [keys |-> {"start_date", "end_date"},
                 start_date |-> IsoTimes[2], end_date |-> None]],
     [kind |-> "json",
      value |-> [keys |-> {"start_date", "end_date"},
                 start_date |-> None, end_date |-> IsoTimes[2]]]}

\* the replies drawn for a run of the graph: the graph never sends the request,
\* so one reply with a date stands for both
GraphDateReplies ==
    {r \in DateReplies : r.kind = "json" => r.value.end_date = None}

\* the filters extract_dates_node returns when the service answers reply
extract_dates_node(reply) ==
    IF reply.kind \in {"raise", "malformed"} THEN NullFilters ELSE reply.value

\* response.content of the answering model
AnswerContents == {"root cause: db timeout", "the logs do not say"}

\* top_k=5 of reranking_node
TopK == 5

NoLogsMarker == "No relevant logs found."

\* ContextOf without the substitution of the marker for an empty join
ContextOfNoMarker(docs) ==
    [marker |-> "",
     parts |-> [i \in 1..Len(docs) |->
                  [score |-> IF "rerank_score" \in docs[i].keys
                             THEN docs[i].rerank_score ELSE 0,
                   text |-> docs[i].text]]]

\* context_text of generation_node: the joined "Doc (Score: ..)" blocks, or the
\* marker when the join is the empty string
ContextOf(docs) ==
    LET parts == [i \in 1..Len(docs) |->
                    [score |-> IF "rerank_score" \in docs[i].keys
                               THEN docs[i].rerank_score ELSE 0,
                     text |-> docs[i].text]]
    IN  IF parts = <<>> THEN [marker |-> NoLogsMarker, parts |-> <<>>]
                        ELSE [marker |-> "", parts |-> parts]

\* the context before generation_node has built one
NoContext == [marker |-> "", parts |-> <<>>]

Call(op, arg) == [op |-> op, arg |-> arg]

Called(op) == \E i \in 1..Len(calls) : calls[i].op = op

Ran(n) == \E i \in 1..Len(ran) : ran[i] = n

\* node n was invoked and returned its delta
Returned(n) == Ran(n) /\ ~(pc = "raised" /\ ran[Len(ran)] = n)

\* ------------------------------------------------------------------------
\* query_endpoint: initial_state and the run of the compiled graph
\* ------------------------------------------------------------------------

Init ==
    /\ original_question \in Questions
    /\ optimized_question = <<>>
    /\ extracted_filters = EmptyDict
    /\ retrieved_docs = <<>>
    /\ reranked_docs = <<>>
    /\ final_answer = ""
    /\ pc = entry_point
    /\ ran = <<>>
    /\ calls = <<>>
    /\ context_text = NoContext
    /\ driver = "none"
    /\ dates_reply \in GraphDateReplies
    /\ arg_top_k = TopK
    /\ arg_response = NoResponse
    /\ NoIngestion
    /\ NoRequests

\* Raise with the exception swallowed: the graph follows the edge out of the node
RaiseSwallowed(n, made) ==
    /\ pc' = Successor(n)
    /\ ran' = Append(ran, n)
    /\ calls' = calls \o made

\* an exception leaves the node: the graph run ends, the state keeps its values
Raise(n, made) ==
    /\ pc' = "raised"
    /\ ran' = Append(ran, n)
    /\ calls' = calls \o made

\* the node returns: the graph follows the edge out of it
Return(n, made) ==
    /\ pc' = Successor(n)
    /\ ran' = Append(ran, n)
    /\ calls' = calls \o made

optimize_query_node ==
    /\ pc = "optimize_query"
    /\ LET made == <<Call("llm.rewrite", original_question)>>
       IN  \/ /\ Raise("optimize_query", made)
              /\ UNCHANGED graph_state
           \/ /\ \E content \in RewriterContents :
                    optimized_question' = strip(content)
              /\ Return("optimize_query", made)
              /\ UNCHANGED <<original_question, extracted_filters, retrieved_docs,
                             reranked_docs, final_answer>>
    /\ UNCHANGED <<context_text, driver, dates_reply, arg_top_k, arg_response>>
    /\ UNCHANGED <<ingest_vars, request_vars>>

\* the node of the graph for extract_dates_node
extract_dates ==
    /\ pc = "extract_dates"
    /\ extracted_filters' = extract_dates_node(dates_reply)
    /\ Return("extract_dates", <<Call("llm.dates", original_question)>>)
    /\ UNCHANGED <<original_question, optimized_question, retrieved_docs,
                   reranked_docs, final_answer>>
    /\ UNCHANGED <<context_text, driver, dates_reply, arg_top_k, arg_response>>
    /\ UNCHANGED <<ingest_vars, request_vars>>

\* specific_trace_id searching the rewritten query instead of the question
specific_trace_id_rewritten(question) == trace_id_match(optimized_question)

\* the identifier retrieval_node looks up, <<>> when the question has none
specific_trace_id(question) == trace_id_match(question)

\* DriverAfter with the close only after a try body that did not raise
DriverAfterNoFinally(outcome) == IF outcome = "ok" THEN "closed" ELSE "open"

\* the driver once the try statement is left, whether its body ended normally
\* ("ok") or in the except branch: `finally: driver.close()`
DriverAfter(outcome) == "closed"

\* the call the finally branch makes
CloseCalls(outcome) ==
    IF DriverAfter(outcome) = "closed" THEN <<Call("store.close", <<>>)>> ELSE <<>>

\* retrieval_node, from GraphDatabase.driver(...) to the return.  The store may
\* fail at the driver, at the embedding, at the query, or hand back rows the
\* document loop cannot read.
retrieval_node ==
    /\ pc = "retrieval"
    /\ LET trace_id == specific_trace_id(original_question)
           open     == <<Call("store.driver", <<>>)>>
           lookup   == IF trace_id # <<>>
                       THEN <<Call("store.query_trace", trace_id)>>
                       ELSE <<Call("embed", optimized_question),
                              Call("store.query_vector", optimized_question)>>
           results  == IF trace_id # <<>> THEN exact_trace_query(trace_id)
                                          ELSE vector_query
       IN  \/ \* GraphDatabase.driver raises, before the try
              /\ Raise("retrieval", open)
              /\ UNCHANGED <<driver, graph_state>>
           \/ \* aembed_query raises: except, finally
              /\ trace_id = <<>>
              /\ retrieved_docs' = <<>>
              /\ driver' = DriverAfter("embed_error")
              /\ Return("retrieval", open \o <<lookup[1]>> \o CloseCalls("embed_error"))
              /\ UNCHANGED <<original_question, optimized_question, extracted_filters,
                             reranked_docs, final_answer>>
           \/ \* execute_query raises, or a row lacks a column: except, finally
              /\ retrieved_docs' = <<>>
              /\ driver' = DriverAfter("query_error")
              /\ Return("retrieval", open \o lookup \o CloseCalls("query_error"))
              /\ UNCHANGED <<original_question, optimized_question, extracted_filters,
                             reranked_docs, final_answer>>
           \/ \* the query answers: one dict per record
              /\ \E records \in results : retrieved_docs' = MakeDocs(records)
              /\ driver' = DriverAfter("ok")
              /\ Return("retrieval", open \o lookup \o CloseCalls("ok"))
              /\ UNCHANGED <<original_question, optimized_question, extracted_filters,
                             reranked_docs, final_answer>>
    /\ UNCHANGED <<context_text, dates_reply, arg_top_k, arg_response>>
    /\ UNCHANGED <<ingest_vars, request_vars>>

reranking_node ==
    /\ pc = "reranking"
    /\ \/ \* if not docs: return {"reranked_docs": []}
          /\ retrieved_docs = <<>>
          /\ reranked_docs' = <<>>
          /\ Return("reranking", <<>>)
          /\ UNCHANGED retrieved_docs
       \/ /\ retrieved_docs # <<>>
          /\ \E resp \in GraphRankingResponses :
               LET r == rerank(retrieved_docs, TopK, resp)
               IN  /\ retrieved_docs' = r.docs
                   /\ reranked_docs' = r.out
                   /\ Return("reranking",
                             IF r.called THEN <<Call("llm.rerank", optimized_question)>>
                                         ELSE <<>>)
    /\ UNCHANGED <<original_question, optimized_question, extracted_filters, final_answer>>
    /\ UNCHANGED <<context_text, driver, dates_reply, arg_top_k, arg_response>>
    /\ UNCHANGED <<ingest_vars, request_vars>>

generation_node ==
    /\ pc = "generation"
    /\ context_text' = ContextOf(Deref(reranked_docs, retrieved_docs))
    /\ LET made == <<Call("llm.generate", original_question)>>
       IN  \/ /\ Raise("generation", made)
              /\ UNCHANGED final_answer
           \/ /\ \E content \in AnswerContents : final_answer' = content
              /\ Return("generation", made)
    /\ UNCHANGED <<original_question, optimized_question, extracted_filters,
                   retrieved_docs, reranked_docs>>
    /\ UNCHANGED <<driver, dates_reply, arg_top_k, arg_response>>
    /\ UNCHANGED <<ingest_vars, request_vars>>

\* the compiled graph runs the nodes its edges reach from the entry point
Next ==
    \/ optimize_query_node
    \/ retrieval_node
    \/ reranking_node
    \/ generation_node

Spec == Init /\ [][Next]_vars

\* ------------------------------------------------------------------------
\* OpenAIRerankerService.rerank called directly
\* ------------------------------------------------------------------------

\* candidate lists of every length up to MaxRows
CandidateLists ==
    {MakeDocs(rows) : rows \in {s \in vector_query :
        \A i \in 1..Len(s) :
            /\ s[i].score = 90
            /\ i < Len(s) => s[i].timestamp < s[i + 1].timestamp}}

InitRerank ==
    /\ original_question = QPlain
    /\ optimized_question \in {strip(c) : c \in RewriterContents}
    /\ extracted_filters = EmptyDict
    /\ retrieved_docs \in CandidateLists
    /\ reranked_docs = <<>>
    /\ final_answer = ""
    /\ pc = "rerank"
    /\ ran = <<>>
    /\ calls = <<>>
    /\ context_text = NoContext
    /\ driver = "none"
    /\ dates_reply \in {r \in DateReplies : r.kind = "raise"}
    /\ arg_top_k \in 1..MaxTopK
    /\ arg_response = NoResponse
    /\ NoIngestion
    /\ NoRequests

\* await reranker_service.rerank(query, docs, top_k): retrieved_docs holds docs
rerank_call ==
    /\ pc = "rerank"
    /\ \E resp \in RankingResponses :
         LET r == rerank(retrieved_docs, arg_top_k, resp)
         IN  /\ arg_response' = resp
             /\ retrieved_docs' = r.docs
             /\ reranked_docs' = r.out
             /\ calls' = IF r.called
                         THEN Append(calls, Call("llm.rerank", optimized_question))
                         ELSE calls
    /\ pc' = "returned"
    /\ ran' = Append(ran, "rerank")
    /\ UNCHANGED <<original_question, optimized_question, extracted_filters, final_answer,
                   context_text, driver, dates_reply, arg_top_k>>
    /\ UNCHANGED <<ingest_vars, request_vars>>

NextRerank == rerank_call

SpecRerank == InitRerank /\ [][NextRerank]_vars

\* ------------------------------------------------------------------------
\* retrieval_node called directly on a GraphState
\* ------------------------------------------------------------------------

\* the rewritten queries optimize_query_node can write
RewrittenQueries == {strip(c) : c \in RewriterContents}

\* the filter dicts a GraphState can hold: {} and what extract_dates_node returns
FilterValues == {EmptyDict} \cup {extract_dates_node(r) : r \in DateReplies}

InitRetrieval ==
    /\ original_question \in Questions
    /\ optimized_question \in RewrittenQueries
    /\ extracted_filters \in FilterValues
    /\ retrieved_docs = <<>>
    /\ reranked_docs = <<>>
    /\ final_answer = ""
    /\ pc = "retrieval"
    /\ ran = <<>>
    /\ calls = <<>>
    /\ context_text = NoContext
    /\ driver = "none"
    /\ dates_reply \in {r \in DateReplies : r.kind = "raise"}
    /\ arg_top_k = TopK
    /\ arg_response = NoResponse
    /\ NoIngestion
    /\ NoRequests

NextRetrieval == retrieval_node

SpecRetrieval == InitRetrieval /\ [][NextRetrieval]_vars

\* ------------------------------------------------------------------------
\* Helpers of the properties
\* ------------------------------------------------------------------------

FiveStages == <<"optimize_query", "extract_dates", "retrieval", "reranking", "generation">>

LastRan == ran[Len(ran)]

RerankKeys == {"rerank_score", "rerank_reason"}

Min(a, b) == IF a < b THEN a ELSE b

\* the questions that carry an identifier, and the identifier a reader finds first
QuestionsWithId == {QTraceA, QTraceC, QTwo}

ExpectedId(q) ==
    IF q = QTraceA THEN TraceA ELSE IF q = QTraceC THEN TraceC ELSE TraceB

CallsOf(op) == {calls[i] : i \in {j \in 1..Len(calls) : calls[j].op = op}}

\* the positions (from 1) the decisions of a response select among n candidates,
\* decisions outside [0, n) left out
RECURSIVE Selected(_, _)
Selected(items, n) ==
    IF items = <<>> THEN <<>>
    ELSE IF 0 <= Head(items).index /\ Head(items).index < n
         THEN <<Head(items).index + 1>> \o Selected(Tail(items), n)
         ELSE Selected(Tail(items), n)

\* the direct rerank call has returned after the service call or the
\* processing of its response failed
RerankFailed ==
    /\ pc = "returned"
    /\ retrieved_docs # <<>>
    /\ \/ arg_response.kind \in {"raise", "list"}
       \/ /\ arg_response.kind = "dict"
          /\ RankLoop(retrieved_docs, <<>>,
                      IF arg_response.has_ranked THEN arg_response.ranked_results
                                                 ELSE <<>>).raised

\* ------------------------------------------------------------------------
\* Properties
\* ------------------------------------------------------------------------

\* C1: a run that reaches the end of the graph has invoked the five stages
\* optimize_query, extract_dates, retrieval, reranking, generation, each once,
\* in this order.
C1_FiveStagesInOrder == pc = END_NODE => ran = FiveStages

\* C2: there is no early exit.  Once retrieval has returned no candidate, the
\* run is at reranking, or reranking has returned an empty list without a
\* service call and the run is at generation, or generation has been invoked
\* with the "no evidence" marker as its context; and a run that has reached the
\* end of the graph has a final answer written by generation.
C2_NoEarlyExit ==
    (Returned("retrieval") /\ retrieved_docs = <<>>) =>
        \/ pc = "reranking"
        \/ /\ Returned("reranking")
           /\ reranked_docs = <<>>
           /\ ~Called("llm.rerank")
           /\ \/ pc = "generation"
              \/ /\ Ran("generation")
                 /\ Called("llm.generate")
                 /\ context_text.marker = NoLogsMarker
                 /\ context_text.parts = <<>>
                 /\ pc \in {END_NODE, "raised"}
                 /\ pc = END_NODE => final_answer \in AnswerContents

C2_Witness ==
    /\ Returned("retrieval")
    /\ retrieved_docs = <<>>
    /\ ran = <<"optimize_query", "retrieval", "reranking", "generation">>
    /\ pc = END_NODE
    /\ context_text.marker = NoLogsMarker
    /\ final_answer \in AnswerContents

\* C3: when query rewriting has succeeded, the only stage that can end the run
\* with an error is answer synthesis: no failure in retrieval or reranking
\* keeps the run from the end of the graph.
C3_AlwaysCompletes ==
    (Returned("optimize_query") /\ pc = "raised") => LastRan = "generation"

\* C4: when the reasoning service fails on the time-extraction request (it
\* raises or answers malformed output), the time-extraction stage has returned
\* the filter with both bounds null by the time retrieval has run.
C4_NullFilterOnFailure ==
    (dates_reply.kind \in {"raise", "malformed"} /\ Returned("retrieval")) =>
        /\ Returned("extract_dates")
        /\ extracted_filters = NullFilters

\* C5: the retrieval stage never ends the run with an error: whatever the store
\* does, retrieval_node returns (with an empty candidate list on a store error).
C5_StoreErrorsCaught == Ran("retrieval") => Returned("retrieval")

\* C6: when the service call or the processing of its response fails on a
\* non-empty candidate list, rerank returns the first top_k candidates in
\* retrieval order, and no returned candidate has a rerank_score or a
\* rerank_reason.
C6_FallbackUnscored ==
    RerankFailed =>
        /\ reranked_docs = [i \in 1..Min(arg_top_k, Len(retrieved_docs)) |-> i]
        /\ \A i \in 1..Len(reranked_docs) :
             retrieved_docs[reranked_docs[i]].keys \cap RerankKeys = {}

\* C7: rerank never returns more than top_k results.
C7_AtMostTopK == pc = "returned" => Len(reranked_docs) <= arg_top_k

\* C8: for a response whose decisions all follow the schema, rerank returns
\* exactly the candidates of the decisions whose index lies in
\* [0, len(candidates)), in the order of the response: a decision outside the
\* range adds nothing and makes no fallback happen.
C8_OutOfRangeDropped ==
    (pc = "returned" /\ retrieved_docs # <<>> /\ WellFormed(arg_response)) =>
        reranked_docs = Selected(arg_response.ranked_results, Len(retrieved_docs))

C8_Witness ==
    /\ pc = "returned"
    /\ Len(retrieved_docs) = 2
    /\ WellFormed(arg_response)
    /\ Len(arg_response.ranked_results) = 2
    /\ arg_response.ranked_results[1].index = 2
    /\ arg_response.ranked_results[2].index = 1
    /\ reranked_docs = <<2>>

\* C9: rerank of an empty candidate list returns the empty list and makes no
\* call to the reasoning service.
C9_EmptyNoCall ==
    (pc = "returned" /\ retrieved_docs = <<>>) =>
        /\ reranked_docs = <<>>
        /\ calls = <<>>

C9_Witness ==
    /\ pc = "returned"
    /\ retrieved_docs = <<>>
    /\ arg_response.kind = "dict"
    /\ arg_response.ranked_results # <<>>

\* C10: once retrieval has returned, the path it took is the one the original
\* question decides: with an identifier in it, the exact-trace query for that
\* identifier and neither an embedding nor a vector query; without one, the
\* embedding of the rewritten query and no exact-trace query.
C10_StrategyFromQuestion ==
    Returned("retrieval") =>
        IF original_question \in QuestionsWithId
        THEN /\ CallsOf("store.query_trace")
                  = {Call("store.query_trace", ExpectedId(original_question))}
             /\ ~Called("embed")
             /\ ~Called("store.query_vector")
        ELSE /\ CallsOf("embed") = {Call("embed", optimized_question)}
             /\ CallsOf("store.query_vector")
                  \subseteq {Call("store.query_vector", optimized_question)}
             /\ ~Called("store.query_trace")

C10_Witness ==
    /\ Returned("retrieval")
    /\ original_question = QGlued
    /\ optimized_question = TraceA
    /\ Called("store.query_vector")
    /\ retrieved_docs # <<>>


\* ------------------------------------------------------------------------
\* C11..C20
\* ------------------------------------------------------------------------

\* the timestamp printed in a document's text
DocTimestamp(doc) == doc.text[1]

\* the retrieval ran on the vector path (the question carries no identifier)
HybridPath == specific_trace_id(original_question) = <<>>

\* C11: on the hybrid path the time filter is a hard constraint: no returned
\* candidate lies before a non-null start bound or after a non-null end bound.
C11_TimeFilterApplied ==
    (Returned("retrieval") /\ HybridPath) =>
        \A i \in 1..Len(retrieved_docs) :
            /\ extracted_filters.start_date # None =>
                   DocTimestamp(retrieved_docs[i]) >= Instant(extracted_filters.start_date)
            /\ extracted_filters.end_date # None =>
                   DocTimestamp(retrieved_docs[i]) <= Instant(extracted_filters.end_date)

\* the number of calls of op made so far
CallCount(op) == Cardinality({i \in 1..Len(calls) : calls[i].op = op})

\* C12: a retrieval acquires the store connection once and releases it on
\* every exit path: once retrieval has been invoked no connection is open, the
\* driver was requested exactly once, and a connection that was acquired (the
\* node returned, with candidates or after a caught failure) is closed by
\* exactly one close.
C12_ConnectionReleased ==
    Ran("retrieval") =>
        /\ driver # "open"
        /\ CallCount("store.driver") = 1
        /\ Returned("retrieval") => (driver = "closed" /\ CallCount("store.close") = 1)
        /\ ~Returned("retrieval") => (driver = "none" /\ CallCount("store.close") = 0)

\* retrieval returned after the query failed inside the try, connection closed
C12_Witness ==
    /\ Returned("retrieval")
    /\ Called("store.query_vector")
    /\ retrieved_docs = <<>>
    /\ driver = "closed"
    /\ calls[Len(calls)].op = "store.close"


\* the QueryResponse query_endpoint builds from the final state of the graph:
\* one source per reranked document (its rerank_score, 0 when the key is
\* missing, and its text), the other fields copied from the state
query_response ==
    LET docs == Deref(reranked_docs, retrieved_docs)
    IN  [answer |-> final_answer,
         original_question |-> original_question,
         optimized_question |-> optimized_question,
         extracted_dates |-> extracted_filters,
         context_sources |->
             [i \in 1..Len(docs) |->
                 [score |-> IF "rerank_score" \in docs[i].keys
                            THEN docs[i].rerank_score ELSE 0,
                  snippet |-> docs[i].text]]]

\* the time-extraction service finds no date in the question: it answers the
\* all-null pair, or fails and the stage substitutes it
NoDateFound == extract_dates_node(dates_reply) = NullFilters

\* C13: for a question with no identifier and no date language a completed
\* run took the hybrid retrieval path, and the time filter of the final state,
\* returned as extracted_dates, is {start_date: null, end_date: null}.
C13_ScenarioA ==
    (pc = END_NODE /\ original_question = QPlain /\ NoDateFound) =>
        /\ Called("embed")
        /\ ~Called("store.query_trace")
        /\ extracted_filters = NullFilters
        /\ query_response.extracted_dates = NullFilters


\* the stage about to run is one of ns
Running(ns) == pc \in ns

\* d2 is the dict d1 with nothing changed but the keys rerank_score and
\* rerank_reason, which may have been set
EnrichedDoc(d1, d2) ==
    /\ d2.text = d1.text
    /\ d2.trace_id = d1.trace_id
    /\ d2.score = d1.score
    /\ d1.keys \subseteq d2.keys
    /\ d2.keys \subseteq d1.keys \cup RerankKeys

\* C14 as stated: a stage leaves every field owned by an earlier stage with
\* the value it had before the stage ran.
C14_EarlierFieldsKeepValue ==
    [][/\ original_question' = original_question
       /\ Running({"retrieval", "reranking", "generation"}) =>
              /\ optimized_question' = optimized_question
              /\ extracted_filters' = extracted_filters
       /\ Running({"reranking", "generation"}) => retrieved_docs' = retrieved_docs
       /\ Running({"generation"}) => reranked_docs' = reranked_docs]_vars

\* C14, amended: a stage leaves every field owned by an earlier stage as it
\* was, except that reranking may set the relevance score and the
\* justification on the candidate items in place: the candidate list keeps its
\* items, their order, and their text, trace id and retrieval score.
C14_EarlierFieldsKeptButEnrichment ==
    [][/\ original_question' = original_question
       /\ Running({"retrieval", "reranking", "generation"}) =>
              /\ optimized_question' = optimized_question
              /\ extracted_filters' = extracted_filters
       /\ Running({"reranking"}) =>
              /\ Len(retrieved_docs') = Len(retrieved_docs)
              /\ \A i \in 1..Len(retrieved_docs) :
                     EnrichedDoc(retrieved_docs[i], retrieved_docs'[i])
       /\ Running({"generation"}) =>
              /\ retrieved_docs' = retrieved_docs
              /\ reranked_docs' = reranked_docs]_vars

\* reranking has returned and a candidate of the retrieved list carries a
\* relevance score
C14_Witness ==
    /\ Returned("reranking")
    /\ \E i \in 1..Len(retrieved_docs) : "rerank_score" \in retrieved_docs[i].keys


\* the reasoning service was asked to rewrite and no rewritten query was written
RewritingFailed == Called("llm.rewrite") /\ optimized_question \notin RewrittenQueries

\* the reasoning service was asked to synthesise and no answer was written
SynthesisFailed == Called("llm.generate") /\ final_answer \notin AnswerContents

\* C15: a failure of the reasoning service in query rewriting or in answer
\* synthesis is not caught by the stage: the run ends with the exception at
\* that stage, no later stage has run or made a call, and the state holds no
\* final answer.
C15_FailurePropagates ==
    /\ RewritingFailed =>
           /\ pc = "raised"
           /\ ran = <<"optimize_query">>
           /\ calls = <<Call("llm.rewrite", original_question)>>
           /\ final_answer = ""
    /\ SynthesisFailed =>
           /\ pc = "raised"
           /\ LastRan = "generation"
           /\ calls[Len(calls)].op = "llm.generate"
           /\ final_answer = ""
    /\ pc = "raised" => ~ENABLED Next

\* synthesis failed on a run that had reranked evidence
C15_Witness ==
    /\ SynthesisFailed
    /\ pc = "raised"
    /\ reranked_docs # <<>>


\* what the narrative of a document says after the anchor's own six fields
\* (timestamp, level, service, message, trace id, scenario)
RootCauseEntries(doc) == SubSeq(doc.text, 7, Len(doc.text))

\* severities at warning or above
Elevated == {"WARNING", "ERROR", "CRITICAL"}

\* the (service, message, timestamp) triples of the events of the anchor's
\* trace at elevated severity strictly before the anchor
RootCauseTriples(doc) ==
    {<<l.service, l.message, l.timestamp>> :
        l \in {m \in StoreLogs : /\ m.trace_id = doc.trace_id
                                 /\ m.level \in Elevated
                                 /\ m.timestamp < DocTimestamp(doc)}}

\* C16: in hybrid retrieval the narrative of an anchor lists its root-cause
\* candidates once per (service, message, timestamp) triple: two candidates
\* with the same triple are a single entry.
C16_RootCausesDeduplicated ==
    (Returned("retrieval") /\ HybridPath) =>
        \A i \in 1..Len(retrieved_docs) :
            LET entries == RootCauseEntries(retrieved_docs[i])
            IN  /\ {entries[k] : k \in 1..Len(entries)} = RootCauseTriples(retrieved_docs[i])
                /\ Len(entries) = Cardinality(RootCauseTriples(retrieved_docs[i]))


\* the trace identifier printed in a document's text
DocTraceId(doc) == doc.text[5]

\* C17: on the exact-trace path every candidate belongs to the trace named in
\* the question, carries the score 1.0, and the candidates are in ascending
\* order of timestamp.
C17_ExactTracePath ==
    (Returned("retrieval") /\ original_question \in QuestionsWithId) =>
        /\ Called("store.query_trace")
        /\ \A i \in 1..Len(retrieved_docs) :
               /\ retrieved_docs[i].trace_id = ExpectedId(original_question)
               /\ DocTraceId(retrieved_docs[i]) = ExpectedId(original_question)
               /\ retrieved_docs[i].score = 100
        /\ \A i \in 1..(Len(retrieved_docs) - 1) :
               DocTimestamp(retrieved_docs[i]) <= DocTimestamp(retrieved_docs[i + 1])

\* the exact-trace path returned every event of the trace the question names,
\* the later event last
C17_Witness ==
    /\ Returned("retrieval")
    /\ original_question = QTraceA
    /\ Len(retrieved_docs) = Cardinality({l \in StoreLogs : l.trace_id = TraceA})
    /\ DocTimestamp(retrieved_docs[1]) < DocTimestamp(retrieved_docs[Len(retrieved_docs)])

\* C18: for a question without an identifier the candidate list of hybrid
\* retrieval is in descending order of similarity score.
C18_DescendingSimilarity ==
    (Returned("retrieval") /\ original_question \notin QuestionsWithId) =>
        /\ ~Called("store.query_trace")
        /\ \A i \in 1..(Len(retrieved_docs) - 1) :
               retrieved_docs[i].score >= retrieved_docs[i + 1].score

\* hybrid retrieval returned two candidates of different similarity
C18_Witness ==
    /\ Returned("retrieval")
    /\ original_question = QPlain
    /\ Len(retrieved_docs) >= 2
    /\ retrieved_docs[1].score > retrieved_docs[2].score


\* the decisions of a response whose index lies in [0, n), in response order
RECURSIVE InRangeDecisions(_, _)
InRangeDecisions(items, n) ==
    IF items = <<>> THEN <<>>
    ELSE IF 0 <= Head(items).index /\ Head(items).index < n
         THEN <<Head(items)>> \o InRangeDecisions(Tail(items), n)
         ELSE InRangeDecisions(Tail(items), n)

\* C19: on a successful rerank the returned list follows the order of the
\* decisions of the response, and its k-th item is the original candidate at
\* the k-th decision's index, carrying that decision's relevance score and
\* justification.
C19_DecisionOrderAndScores ==
    (pc = "returned" /\ retrieved_docs # <<>> /\ WellFormed(arg_response)) =>
        LET decisions == InRangeDecisions(arg_response.ranked_results, Len(retrieved_docs))
            returned  == Deref(reranked_docs, retrieved_docs)
        IN  /\ Len(reranked_docs) = Len(decisions)
            /\ \A k \in 1..Len(decisions) :
                   /\ reranked_docs[k] = decisions[k].index + 1
                   /\ RerankKeys \subseteq returned[k].keys
                   /\ returned[k].rerank_score = decisions[k].relevance_score
                   /\ returned[k].rerank_reason = decisions[k].reasoning

\* C20: every relevance score the reranker attached to an evidence item lies
\* in [0.0, 1.0]; a response that violates the RankingDecision schema never
\* yields an item carrying an out-of-range score.
C20_ScoreInUnitInterval ==
    pc = "returned" =>
        \A i \in 1..Len(retrieved_docs) :
            "rerank_score" \in retrieved_docs[i].keys =>
                (0 <= retrieved_docs[i].rerank_score /\ retrieved_docs[i].rerank_score <= 100)


\* ------------------------------------------------------------------------
\* The ingestion flow: knowledge_graph_parser and process_single_trace
\* ------------------------------------------------------------------------

\* the longest partition of the model
MaxMessages == 3

\* no query pipeline is running
NoPipeline ==
    /\ original_question = <<>>
    /\ optimized_question = <<>>
    /\ extracted_filters = EmptyDict
    /\ retrieved_docs = <<>>
    /\ reranked_docs = <<>>
    /\ final_answer = ""
    /\ pc = "none"
    /\ ran = <<>>
    /\ calls = <<>>
    /\ context_text = NoContext
    /\ driver = "none"
    /\ dates_reply = [kind |-> "raise", value |-> EmptyDict]
    /\ arg_top_k = TopK
    /\ arg_response = NoResponse

\* msg.value of a message: bytes that are no UTF-8, UTF-8 text that is no JSON,
\* the JSON object {}, a JSON object describing a trace
Payloads == {"not_utf8", "not_json", "empty_object", "trace"}

\* a trace dict, by its keys
TraceDict(keys) == [keys |-> keys]

\* json.loads(msg.value.decode("utf-8")): the exception raised, "" when none,
\* and the parsed data
json_loads(payload) ==
    IF payload = "not_utf8"
    THEN [raised |-> "UnicodeDecodeError", data |-> TraceDict({})]
    ELSE IF payload = "not_json"
    THEN [raised |-> "JSONDecodeError", data |-> TraceDict({})]
    ELSE IF payload = "empty_object"
    THEN [raised |-> "", data |-> TraceDict({})]
    ELSE [raised |-> "", data |-> TraceDict({"trace_id", "metadata"})]

\* create_narrative_from_trace: "" for an empty trace; for any other trace the
\* function reads the name `log`, which is bound nowhere, and raises NameError
create_narrative_from_trace(trace) ==
    IF trace.keys = {}
    THEN [raised |-> "", text |-> ""]
    ELSE [raised |-> "NameError", text |-> ""]

\* process_single_trace (with the retries of its task): the ways it can end.
\* The narrative is built before the try; after it the knowledge-graph build
\* either succeeds or raises, the error re-raised by the except branch.
process_single_trace(trace) ==
    IF trace.keys = {} THEN {"returned"}
    ELSE LET narrative == create_narrative_from_trace(trace)
         IN  IF narrative.raised # "" THEN {"raised"}
             ELSE IF narrative.text = "" THEN {"returned"}
             ELSE {"returned", "raised"}

\* consumer.commit() with no argument: the committed offset becomes the
\* consumer's position, whatever happened to the messages below it
commit(pos) == pos

InitIngest ==
    /\ topic \in SeqsUpTo(Payloads, MaxMessages)
    /\ consumer = "created"
    /\ position = 0
    /\ committed = 0
    /\ handled = <<>>
    /\ flow_pc = "start"
    /\ NoPipeline
    /\ NoRequests

\* await consumer.start(), before the try
consumer_start ==
    /\ flow_pc = "start"
    /\ \/ /\ consumer' = "started"
          /\ flow_pc' = "listening"
       \/ /\ flow_pc' = "raised"
          /\ UNCHANGED consumer
    /\ UNCHANGED <<topic, position, committed, handled>>
    /\ UNCHANGED <<pipeline_vars, request_vars>>

\* the message is handled as outcome and the loop goes on to the next one
NextMessage(outcome) ==
    /\ position' = position + 1
    /\ handled' = Append(handled, outcome)
    /\ UNCHANGED <<consumer, flow_pc>>

\* an exception leaves the loop: finally, consumer.stop()
LeaveLoop ==
    /\ consumer' = "stopped"
    /\ flow_pc' = "raised"

\* one iteration of `async for msg in consumer`, from the fetch of the message
\* to the end of the loop body
handle_message ==
    /\ flow_pc = "listening"
    /\ position < Len(topic)
    /\ LET parsed == json_loads(topic[position + 1])
       IN  \/ \* processed, commit
              /\ parsed.raised = ""
              /\ "returned" \in process_single_trace(parsed.data)
              /\ committed' = commit(position + 1)
              /\ NextMessage("processed")
           \/ \* processed, commit raises: except Exception, sleep
              /\ parsed.raised = ""
              /\ "returned" \in process_single_trace(parsed.data)
              /\ UNCHANGED committed
              /\ NextMessage("processed")
           \/ \* except json.JSONDecodeError: commit, continue
              /\ parsed.raised = "JSONDecodeError"
              /\ committed' = commit(position + 1)
              /\ NextMessage("skipped")
           \/ \* except json.JSONDecodeError: commit raises inside the handler
              /\ parsed.raised = "JSONDecodeError"
              /\ position' = position + 1
              /\ handled' = Append(handled, "skipped")
              /\ UNCHANGED committed
              /\ LeaveLoop
           \/ \* any other exception of decoding or processing: sleep
              /\ \/ parsed.raised = "UnicodeDecodeError"
                 \/ /\ parsed.raised = ""
                    /\ "raised" \in process_single_trace(parsed.data)
              /\ UNCHANGED committed
              /\ NextMessage("failed")
    /\ UNCHANGED topic
    /\ UNCHANGED <<pipeline_vars, request_vars>>

\* the iteration itself raises (the broker fails, the flow is cancelled)
consumer_error ==
    /\ flow_pc = "listening"
    /\ LeaveLoop
    /\ UNCHANGED <<topic, position, committed, handled>>
    /\ UNCHANGED <<pipeline_vars, request_vars>>

NextIngest ==
    \/ consumer_start
    \/ handle_message
    \/ consumer_error

SpecIngest == InitIngest /\ [][NextIngest]_vars

\* ------------------------------------------------------------------------
\* Requests served concurrently: each query_endpoint call builds its own
\* initial_state and its own compiled graph; reranker_service is one object
\* for all of them, and rerank writes none of its attributes
\* ------------------------------------------------------------------------

\* the requests in flight
RequestIds == {1, 2}

\* initial_state of query_endpoint, with the entry point as the node to run
initial_state(question) ==
    [original_question |-> question, optimized_question |-> <<>>,
     extracted_filters |-> EmptyDict, retrieved_docs |-> <<>>,
     reranked_docs |-> <<>>, final_answer |-> "", pc |-> entry_point]

\* the rows the store can answer a request's query with
RequestRows(question) ==
    IF specific_trace_id(question) # <<>>
    THEN exact_trace_query(specific_trace_id(question))
    ELSE {rows \in vector_query : Len(rows) = 1 /\ rows[1].score = 90}

\* what the services answer to one request: the rewriter's content or a
\* failure, the store's failure or rows, the ranking response, the answer or
\* a failure
RequestInputs ==
    {[question |-> q, rewrite_raises |-> rr, rewrite |-> <<"p", "a", "y", " ">>,
      store |-> st.outcome, rows |-> st.rows, ranking |-> rk,
      answer_raises |-> ar, answer |-> "root cause: db timeout"] :
        q \in {QPlain, QTraceA}, rr \in BOOLEAN, ar \in BOOLEAN,
        st \in {[outcome |-> "driver_error", rows |-> <<>>],
                [outcome |-> "query_error", rows |-> <<>>]}
               \cup {[outcome |-> "ok", rows |-> rows] :
                        rows \in RequestRows(QPlain) \cup RequestRows(QTraceA)},
        rk \in {Response("raise", FALSE, <<>>),
                Response("dict", TRUE, <<Item(ItemKeys, 0, TRUE, 90, "relevant")>>)}}

\* the inputs whose rows answer the query of their question
ConsistentInputs ==
    {in \in RequestInputs : in.store = "ok" => in.rows \in RequestRows(in.question)}

\* the node state.pc applied to a request's state, the services answering as
\* input says: the state after the node, at the next node, END_NODE or "raised"
node_step(state, input) ==
    IF state.pc = "optimize_query"
    THEN IF input.rewrite_raises
         THEN [state EXCEPT !.pc = "raised"]
         ELSE [state EXCEPT !.optimized_question = strip(input.rewrite),
                            !.pc = Successor("optimize_query")]
    ELSE IF state.pc = "retrieval"
    THEN IF input.store = "driver_error"
         THEN [state EXCEPT !.pc = "raised"]
         ELSE [state EXCEPT !.retrieved_docs =
                                IF input.store = "ok" THEN MakeDocs(input.rows) ELSE <<>>,
                            !.pc = Successor("retrieval")]
    ELSE IF state.pc = "reranking"
    THEN IF state.retrieved_docs = <<>>
         THEN [state EXCEPT !.reranked_docs = <<>>, !.pc = Successor("reranking")]
         ELSE LET r == rerank(state.retrieved_docs, TopK, input.ranking)
              IN  [state EXCEPT !.retrieved_docs = r.docs, !.reranked_docs = r.out,
                                !.pc = Successor("reranking")]
    ELSE IF state.pc = "generation"
    THEN IF input.answer_raises
         THEN [state EXCEPT !.pc = "raised"]
         ELSE [state EXCEPT !.final_answer = input.answer,
                            !.pc = Successor("generation")]
    ELSE state

\* StateOf with one state dict for all requests
StateOfShared(r) == requests[CHOOSE q \in RequestIds : \A p \in RequestIds : q <= p]

\* the state dict the graph of request r works on: its own initial_state
StateOf(r) == requests[r]

InitConcurrent ==
    /\ inputs \in [RequestIds -> ConsistentInputs]
    /\ requests = [r \in RequestIds |-> initial_state(inputs[r].question)]
    /\ NoPipeline
    /\ NoIngestion

\* the graph of request r runs its next node; ran logs which request ran which node
request_step(r) ==
    /\ StateOf(r).pc \in Nodes
    /\ requests' = [requests EXCEPT ![r] = node_step(StateOf(r), inputs[r])]
    /\ ran' = Append(ran, <<r, StateOf(r).pc>>)
    /\ UNCHANGED inputs
    /\ UNCHANGED <<graph_state, pc, calls, context_text, driver, dates_reply,
                   arg_top_k, arg_response>>
    /\ UNCHANGED ingest_vars

NextConcurrent == \E r \in RequestIds : request_step(r)

SpecConcurrent == InitConcurrent /\ [][NextConcurrent]_vars

\* the run of one request on its own, from state to the end of its graph
RECURSIVE RunFrom(_, _)
RunFrom(state, input) ==
    IF state.pc \in Nodes THEN RunFrom(node_step(state, input), input) ELSE state

\* the final state of a request that runs alone
RunAlone(input) == RunFrom(initial_state(input.question), input)

\* ------------------------------------------------------------------------
\* C21..C24
\* ------------------------------------------------------------------------

\* C23: every item of the list rerank returns is one of the candidates it was
\* given (the retrieval stage's list of the same request), on the successful
\* and on the fallback path: the same item at one of the list's positions,
\* with nothing changed but the relevance score and justification.
C23_RerankedAreCandidates ==
    [][pc = "rerank" =>
          \A k \in 1..Len(reranked_docs') :
              \E i \in 1..Len(retrieved_docs) :
                  /\ reranked_docs'[k] = i
                  /\ i <= Len(retrieved_docs')
                  /\ EnrichedDoc(retrieved_docs[i], retrieved_docs'[i])]_vars

\* a successful rerank returned both candidates, the second first
C23_Witness ==
    /\ pc = "returned"
    /\ ~RerankFailed
    /\ Len(retrieved_docs) = 2
    /\ reranked_docs = <<2, 1>>


\* C22: every committed offset covers only messages that were processed
\* successfully or skipped as undecodable JSON: no message whose handling
\* raised an error lies below the committed offset.
C22_CommitCoversHandledOnly ==
    \A i \in 1..committed : handled[i] \in {"processed", "skipped"}

\* C24: once the consumer has been started it is stopped on every exit path
\* of the flow, and no per-message error (undecodable payload, processing
\* error) ends the loop: the loop goes on with the next message.
C24_StoppedAndLoopSurvives ==
    [][/\ (consumer = "started" /\ flow_pc' # "listening") => consumer' = "stopped"
       /\ (Len(handled') > Len(handled)
              /\ handled'[Len(handled')] \in {"skipped", "failed"}) =>
              (flow_pc' = "listening" /\ consumer' = "started")]_vars


====
